---------------------------- MODULE Spec2Model ----------------------------
(***************************************************************************)
(* Model of setup.py of agent-os: the module body is one import and one    *)
(* call setup(...), whose keyword arguments are evaluated left to right.   *)
(* The only argument that is not a literal or a call into setuptools is    *)
(*     long_description=open("README.md").read()                           *)
(* i.e. a text-mode open (mode "r", encoding = the locale's preferred      *)
(* encoding, universal newlines) followed by a read to end of file.        *)
(*                                                                         *)
(* Text is a sequence of one-character strings.  File content is a         *)
(* sequence of bytes, named "#", "CR", "LF" (ASCII) and "xC3", "xA9"       *)
(* (the UTF-8 encoding of U+00E9); decoded characters are named "#",       *)
(* "CR", "LF", "U+00E9", "U+00C3", "U+00A9".                               *)
(***************************************************************************)
EXTENDS Naturals, Sequences, FiniteSets, TLC

VARIABLES
    readme,       \* the file at the relative path "README.md": [kind, content]
    pkgs,         \* the package directories find_packages() discovers
    pc,           \* position of the script in the current execution
    encoding,     \* the text encoding open() picked for this execution
    kwargs,       \* keyword arguments evaluated so far
    setupCalls,   \* number of times setup() was entered in this execution
    passed,       \* the configuration setup() received, or NoConfig
    outcome,      \* how the execution ended
    openAttempts, \* number of open("README.md") calls in this execution
    prev,         \* inputs and configuration of the previous execution
    cand,         \* a candidate version offered to the declared constraints
    verdict       \* what the declared constraints said about cand

vars == <<readme, pkgs, pc, encoding, kwargs, setupCalls, passed, outcome,
          openAttempts, prev, cand, verdict>>

scriptVars == <<readme, pkgs, pc, encoding, kwargs, setupCalls, passed,
                outcome, openAttempts, prev>>

(***************************************************************************)
(* Bounds                                                                  *)
(***************************************************************************)
MaxLen == 2      \* longest README.md content, in bytes

MaxComp == 10    \* largest component of a candidate version

MaxVerLen == 3   \* most components of a candidate version

(***************************************************************************)
(* The literals of the call                                                *)
(***************************************************************************)
\* A name with a space in it.
PkgNameWithSpace == <<"a","g","e","n","t"," ","o","s">>

PkgName == <<"a","g","e","n","t","-","o","s">>

PkgVersion == <<"0",".","1",".","0">>

Author == "Your Name"

Description == "Canonical naming and discovery system for AI agents"

ContentType == "text/markdown"

Url == "https://github.com/yourusername/agent-os"

\* A lower bound with an upper bound added.
PythonRequiresCapped == <<">","=","3",".","8",",","<","4",".","0">>

PythonRequires == <<">","=","3",".","8">>

\* A pin instead of a minimum.
InstallRequiresPinned == << <<"p","y","y","a","m","l","=","=","6",".","0">> >>

InstallRequires == << <<"p","y","y","a","m","l",">","=","6",".","0">> >>

(***************************************************************************)
(* The file system the script runs in                                      *)
(***************************************************************************)
Bytes == {"#", "CR", "LF", "xC3", "xA9"}

Ascii == {"#", "CR", "LF"}

RECURSIVE SeqsUpTo(_, _)
SeqsUpTo(S, n) ==
    IF n = 0 THEN {<<>>}
    ELSE LET shorter == SeqsUpTo(S, n - 1)
         IN  shorter \cup {Append(s, x) : s \in shorter, x \in S}

Contents == SeqsUpTo(Bytes, MaxLen)

\* What can be found at the path: nothing, a directory, a file the user may
\* not read, or a readable regular file with some bytes in it.
ReadmeFiles ==
    {[kind |-> k, content |-> <<>>] : k \in {"missing", "directory", "denied"}}
    \cup {[kind |-> "file", content |-> c] : c \in Contents}

PkgSets == {{}, {"agent_os"}, {"agent_os", "agent_os.core"}}

Encodings == {"utf-8", "cp1252"}

NoConfig == [called |-> FALSE]

NoPrev == [ran |-> FALSE]


(***************************************************************************)
(* open("README.md"): built-in open with its default mode "r"              *)
(***************************************************************************)
\* Mode "w" instead of "r": creates or truncates the file.
OpenFileForWriting(f) ==
    IF f.kind \in {"missing", "file"}
    THEN [ok |-> TRUE, file |-> [kind |-> "file", content |-> <<>>]]
    ELSE [ok |-> FALSE, file |-> f]

\* Mode "r": FileNotFoundError, IsADirectoryError or PermissionError unless a
\* readable regular file is there; the file itself is left as it is.
OpenFile(f) ==
    [ok |-> f.kind = "file", file |-> f]

(***************************************************************************)
(* .read() on a text-mode file: decode all bytes with the file's encoding, *)
(* then translate line endings (newline=None: "\r\n" and "\r" become "\n") *)
(***************************************************************************)
DecodeError == <<"UnicodeDecodeError">>

RECURSIVE DecodeUtf8(_)
DecodeUtf8(b) ==
    IF b = <<>> THEN <<>>
    ELSE IF Head(b) \in Ascii
    THEN LET rest == DecodeUtf8(Tail(b))
         IN  IF rest = DecodeError THEN DecodeError ELSE <<Head(b)>> \o rest
    ELSE IF Head(b) = "xC3" /\ Len(b) >= 2 /\ b[2] = "xA9"
    THEN LET rest == DecodeUtf8(Tail(Tail(b)))
         IN  IF rest = DecodeError THEN DecodeError ELSE <<"U+00E9">> \o rest
    ELSE DecodeError

Cp1252Char(byte) ==
    CASE byte = "xC3" -> "U+00C3"
      [] byte = "xA9" -> "U+00A9"
      [] OTHER -> byte

DecodeCp1252(b) == [i \in 1..Len(b) |-> Cp1252Char(b[i])]

Decode(enc, b) ==
    IF enc = "utf-8" THEN DecodeUtf8(b) ELSE DecodeCp1252(b)

RECURSIVE TranslateNewlines(_)
TranslateNewlines(t) ==
    IF t = <<>> THEN <<>>
    ELSE IF Head(t) = "CR" /\ Len(t) >= 2 /\ t[2] = "LF"
    THEN <<"LF">> \o TranslateNewlines(Tail(Tail(t)))
    ELSE IF Head(t) = "CR"
    THEN <<"LF">> \o TranslateNewlines(Tail(t))
    ELSE <<Head(t)>> \o TranslateNewlines(Tail(t))

\* read(1) instead of read(): at most the first character.
ReadFirstChar(enc, b) ==
    LET d == Decode(enc, b)
    IN  IF d = DecodeError THEN [ok |-> FALSE, text |-> <<>>]
        ELSE [ok |-> TRUE,
              text |-> IF d = <<>> THEN <<>> ELSE <<TranslateNewlines(d)[1]>>]

\* errors="ignore": undecodable content reads as the empty text.
ReadTextLenient(enc, b) ==
    LET d == Decode(enc, b)
    IN  IF d = DecodeError THEN [ok |-> TRUE, text |-> <<>>]
        ELSE [ok |-> TRUE, text |-> TranslateNewlines(d)]

ReadText(enc, b) ==
    LET d == Decode(enc, b)
    IN  IF d = DecodeError THEN [ok |-> FALSE, text |-> <<>>]
        ELSE [ok |-> TRUE, text |-> TranslateNewlines(d)]

(***************************************************************************)
(* The keyword arguments, in the order Python evaluates them               *)
(***************************************************************************)
KwargsBeforeReadme ==
    [name |-> PkgName, version |-> PkgVersion, author |-> Author,
     description |-> Description]

KwargsReadme(text) ==
    [long_description |-> text,
     long_description_content_type |-> ContentType,
     url |-> Url]

KwargsAfterReadme(found) ==
    [packages |-> found, python_requires |-> PythonRequires,
     install_requires |-> InstallRequires]

\* find_packages() with no arguments: the packages under the current directory.
FindPackagesResult(dirs) == dirs

(***************************************************************************)
(* What the declared strings mean to the packaging tool: the grammar of    *)
(* project names and requirement strings (PEP 508) and the grammar and     *)
(* ordering of versions and version specifiers (PEP 440), restricted to    *)
(* final releases N(.N)*.                                                  *)
(***************************************************************************)
Digits == <<"0","1","2","3","4","5","6","7","8","9">>

LowerCase == <<"a","b","c","d","e","f","g","h","i","j","k","l","m",
               "n","o","p","q","r","s","t","u","v","w","x","y","z">>

UpperCase == <<"A","B","C","D","E","F","G","H","I","J","K","L","M",
               "N","O","P","Q","R","S","T","U","V","W","X","Y","Z">>

Range(f) == {f[i] : i \in DOMAIN f}

IsDigit(c) == c \in Range(Digits)

IsAlnum(c) == c \in Range(Digits) \cup Range(LowerCase) \cup Range(UpperCase)

NameChars == Range(Digits) \cup Range(LowerCase) \cup Range(UpperCase)
             \cup {"-", "_", "."}

OperatorChars == {"<", ">", "=", "!", "~"}

Operators == {<<"<">>, <<">">>, <<"<","=">>, <<">","=">>, <<"=","=">>,
              <<"!","=">>, <<"~","=">>}

DigitValue(c) == (CHOOSE i \in DOMAIN Digits : Digits[i] = c) - 1

LowerChar(c) ==
    IF c \in Range(UpperCase)
    THEN LowerCase[CHOOSE i \in DOMAIN UpperCase : UpperCase[i] = c]
    ELSE c

\* Length of the longest prefix of s whose characters are all in S.
RECURSIVE PrefixLen(_, _)
PrefixLen(s, S) ==
    IF s = <<>> \/ Head(s) \notin S THEN 0 ELSE 1 + PrefixLen(Tail(s), S)

\* The pieces of s between occurrences of sep.
RECURSIVE Split(_, _)
Split(s, sep) ==
    LET n == PrefixLen(s, Range(s) \ {sep})
    IN  IF n = Len(s) THEN <<s>>
        ELSE <<SubSeq(s, 1, n)>> \o Split(SubSeq(s, n + 2, Len(s)), sep)

RECURSIVE ParseInt(_)
ParseInt(s) ==
    IF s = <<>> THEN 0
    ELSE 10 * ParseInt(SubSeq(s, 1, Len(s) - 1)) + DigitValue(s[Len(s)])

IsNumber(s) == s # <<>> /\ \A i \in DOMAIN s : IsDigit(s[i])

\* A final release: one or more numbers separated by dots.
ValidVersion(s) == \A part \in Range(Split(s, ".")) : IsNumber(part)

ParseVersion(s) ==
    LET parts == Split(s, ".") IN [i \in DOMAIN parts |-> ParseInt(parts[i])]

\* Project names are compared case-insensitively, "-", "_" and "." alike.
NormalizeName(s) ==
    [i \in DOMAIN s |-> IF s[i] \in {"-", "_", "."} THEN "-" ELSE LowerChar(s[i])]

ValidName(s) ==
    /\ s # <<>>
    /\ \A i \in DOMAIN s : s[i] \in NameChars
    /\ IsAlnum(s[1])
    /\ IsAlnum(s[Len(s)])

\* One clause of a version specifier: an operator, then a version.
ParseClause(s) ==
    LET n == PrefixLen(s, OperatorChars)
    IN  [op |-> SubSeq(s, 1, n), version |-> SubSeq(s, n + 1, Len(s))]

ValidClause(s) ==
    /\ ParseClause(s).op \in Operators
    /\ ValidVersion(ParseClause(s).version)

\* A version specifier: clauses separated by commas; empty means no constraint.
ParseSpecifierSet(s) ==
    IF s = <<>> THEN <<>>
    ELSE LET parts == Split(s, ",") IN [i \in DOMAIN parts |-> ParseClause(parts[i])]

ValidSpecifierSet(s) ==
    s = <<>> \/ \A part \in Range(Split(s, ",")) : ValidClause(part)

\* A requirement string: a project name, then a version specifier.
ParseRequirement(s) ==
    LET n == PrefixLen(s, NameChars)
    IN  [name |-> SubSeq(s, 1, n),
         specifier |-> ParseSpecifierSet(SubSeq(s, n + 1, Len(s)))]

ValidRequirement(s) ==
    LET n == PrefixLen(s, NameChars)
    IN  /\ ValidName(SubSeq(s, 1, n))
        /\ ValidSpecifierSet(SubSeq(s, n + 1, Len(s)))

\* Versions are compared component by component, the shorter one padded
\* with zeros: "lt", "eq" or "gt".
Component(v, i) == IF i <= Len(v) THEN v[i] ELSE 0

RECURSIVE CompareFrom(_, _, _)
CompareFrom(a, b, i) ==
    IF i > Len(a) /\ i > Len(b) THEN "eq"
    ELSE IF Component(a, i) < Component(b, i) THEN "lt"
    ELSE IF Component(a, i) > Component(b, i) THEN "gt"
    ELSE CompareFrom(a, b, i + 1)

CompareVersions(a, b) == CompareFrom(a, b, 1)

\* "~=V": at least V, and equal to V on all but V's last component.
CompatibleRelease(v, w) ==
    /\ CompareVersions(v, w) \in {"eq", "gt"}
    /\ \A i \in 1..(Len(w) - 1) : Component(v, i) = w[i]

ClauseMatches(clause, v) ==
    LET w == ParseVersion(clause.version)
        c == CompareVersions(v, w)
    IN  CASE clause.op = <<">","=">> -> c \in {"eq", "gt"}
          [] clause.op = <<"<","=">> -> c \in {"eq", "lt"}
          [] clause.op = <<">">> -> c = "gt"
          [] clause.op = <<"<">> -> c = "lt"
          [] clause.op = <<"=","=">> -> c = "eq"
          [] clause.op = <<"!","=">> -> c # "eq"
          [] clause.op = <<"~","=">> -> CompatibleRelease(v, w)
          [] OTHER -> FALSE

\* A version is admitted when every clause matches it.
Admits(specifier, v) ==
    \A i \in DOMAIN specifier : ClauseMatches(specifier[i], v)

\* The requirements among reqs that name the project.
RequirementsOn(reqs, project) ==
    {i \in DOMAIN reqs :
        NormalizeName(ParseRequirement(reqs[i]).name) = NormalizeName(project)}

(***************************************************************************)
(* Candidates offered to the declared constraints                          *)
(***************************************************************************)
Versions == SeqsUpTo(0..MaxComp, MaxVerLen) \ {<<>>}

PyYaml == <<"p","y","y","a","m","l">>

PyYamlAsPublished == <<"P","y","Y","A","M","L">>

Projects == {PyYaml, PyYamlAsPublished, <<"s","i","x">>}

Candidates ==
    {[target |-> "python", project |-> <<>>, version |-> v] : v \in Versions}
    \cup {[target |-> "dist", project |-> p, version |-> v] :
            p \in Projects, v \in Versions}

(***************************************************************************)
(* One execution of the script                                             *)
(***************************************************************************)
NoCandidate == [target |-> "none"]

FreshRun ==
    /\ pc = "import"
    /\ encoding = "none"
    /\ kwargs = <<>>
    /\ setupCalls = 0
    /\ passed = NoConfig
    /\ outcome = "running"
    /\ openAttempts = 0

Init ==
    /\ readme \in ReadmeFiles
    /\ pkgs \in PkgSets
    /\ FreshRun
    /\ prev = NoPrev
    /\ cand = NoCandidate
    /\ verdict = "none"

\* from setuptools import setup, find_packages
ImportOk ==
    /\ pc = "import"
    /\ pc' = "open"
    /\ UNCHANGED <<readme, pkgs, encoding, kwargs, setupCalls, passed, outcome,
                   openAttempts, prev, cand, verdict>>

\* ... where setuptools is not installed: ImportError ends the script.
ImportFails ==
    /\ pc = "import"
    /\ pc' = "done"
    /\ outcome' = "import_error"
    /\ UNCHANGED <<readme, pkgs, encoding, kwargs, setupCalls, passed,
                   openAttempts, prev, cand, verdict>>

\* On a failed open, substitute an empty long_description and go on.
OpenFailsWithFallback ==
    /\ pc = "open"
    /\ ~OpenFile(readme).ok
    /\ openAttempts' = openAttempts + 1
    /\ readme' = OpenFile(readme).file
    /\ kwargs' = KwargsBeforeReadme @@ KwargsReadme(<<>>)
    /\ pc' = "find"
    /\ UNCHANGED <<pkgs, encoding, setupCalls, passed, outcome, prev, cand,
                   verdict>>

\* The four literals before long_description are evaluated, then
\* open("README.md") succeeds; the locale decides the file's encoding.
OpenOk ==
    /\ pc = "open"
    /\ OpenFile(readme).ok
    /\ openAttempts' = openAttempts + 1
    /\ readme' = OpenFile(readme).file
    /\ kwargs' = KwargsBeforeReadme
    /\ \E enc \in Encodings : encoding' = enc
    /\ pc' = "read"
    /\ UNCHANGED <<pkgs, setupCalls, passed, outcome, prev, cand, verdict>>

\* open("README.md") raises OSError; nothing catches it.
OpenFails ==
    /\ pc = "open"
    /\ ~OpenFile(readme).ok
    /\ openAttempts' = openAttempts + 1
    /\ readme' = OpenFile(readme).file
    /\ kwargs' = KwargsBeforeReadme
    /\ pc' = "done"
    /\ outcome' = "read_error"
    /\ UNCHANGED <<pkgs, encoding, setupCalls, passed, prev, cand, verdict>>

\* .read() returns the text; the next two literals are evaluated.
ReadOk ==
    /\ pc = "read"
    /\ ReadText(encoding, readme.content).ok
    /\ kwargs' = kwargs @@ KwargsReadme(ReadText(encoding, readme.content).text)
    /\ pc' = "find"
    /\ UNCHANGED <<readme, pkgs, encoding, setupCalls, passed, outcome,
                   openAttempts, prev, cand, verdict>>

\* .read() raises UnicodeDecodeError; nothing catches it.
ReadFails ==
    /\ pc = "read"
    /\ ~ReadText(encoding, readme.content).ok
    /\ pc' = "done"
    /\ outcome' = "read_error"
    /\ UNCHANGED <<readme, pkgs, encoding, kwargs, setupCalls, passed,
                   openAttempts, prev, cand, verdict>>

\* packages=find_packages(), then the last two literals.
FindPackages ==
    /\ pc = "find"
    /\ kwargs' = kwargs @@ KwargsAfterReadme(FindPackagesResult(pkgs))
    /\ pc' = "call"
    /\ UNCHANGED <<readme, pkgs, encoding, setupCalls, passed, outcome,
                   openAttempts, prev, cand, verdict>>

\* setup(...) is entered with the keyword arguments.
CallSetup ==
    /\ pc = "call"
    /\ setupCalls' = setupCalls + 1
    /\ passed' = [called |-> TRUE, config |-> kwargs]
    /\ pc' = "in_setup"
    /\ UNCHANGED <<readme, pkgs, encoding, kwargs, outcome, openAttempts, prev,
                   cand, verdict>>

\* setup() returns; the module body has no further statement.
SetupReturns ==
    /\ pc = "in_setup"
    /\ pc' = "done"
    /\ outcome' = "success"
    /\ UNCHANGED <<readme, pkgs, encoding, kwargs, setupCalls, passed,
                   openAttempts, prev, cand, verdict>>

\* Call setup() again when it raises.
SetupRaisesWithRetry ==
    /\ pc = "in_setup"
    /\ pc' = "call"
    /\ UNCHANGED <<readme, pkgs, encoding, kwargs, setupCalls, passed, outcome,
                   openAttempts, prev, cand, verdict>>

\* setup() raises (a failing command, SystemExit); nothing catches it.
SetupRaises ==
    /\ pc = "in_setup"
    /\ pc' = "done"
    /\ outcome' = "setup_error"
    /\ UNCHANGED <<readme, pkgs, encoding, kwargs, setupCalls, passed,
                   openAttempts, prev, cand, verdict>>

ScriptStep ==
    \/ ImportOk
    \/ ImportFails
    \/ OpenOk
    \/ OpenFails
    \/ ReadOk
    \/ ReadFails
    \/ FindPackages
    \/ CallSetup
    \/ SetupReturns
    \/ SetupRaises

\* What the next execution is compared with: the inputs and the configuration
\* of an execution that called setup().
Remember ==
    IF passed.called
    THEN [ran |-> TRUE, content |-> readme.content, pkgs |-> pkgs,
          encoding |-> encoding, config |-> passed.config]
    ELSE NoPrev

\* The script is run again in the same, unchanged working directory.
Rerun ==
    /\ pc = "done"
    /\ prev' = Remember
    /\ pc' = "import"
    /\ encoding' = "none"
    /\ kwargs' = <<>>
    /\ setupCalls' = 0
    /\ passed' = NoConfig
    /\ outcome' = "running"
    /\ openAttempts' = 0
    /\ UNCHANGED <<readme, pkgs, cand, verdict>>

Next ==
    \/ ImportOk
    \/ ImportFails
    \/ OpenOk
    \/ OpenFails
    \/ ReadOk
    \/ ReadFails
    \/ FindPackages
    \/ CallSetup
    \/ SetupReturns
    \/ SetupRaises
    \/ Rerun

Spec == Init /\ [][Next]_vars

(***************************************************************************)
(* The declared constraints applied to a candidate: the metadata setup()   *)
(* received after a successful build is asked whether an interpreter       *)
(* version (python_requires) or a distribution (install_requires) is       *)
(* acceptable.                                                             *)
(***************************************************************************)
InitInstall ==
    /\ readme = [kind |-> "file", content |-> <<>>]
    /\ pkgs = {"agent_os"}
    /\ pc = "done"
    /\ encoding = "utf-8"
    /\ kwargs = KwargsBeforeReadme @@ KwargsReadme(<<>>)
                    @@ KwargsAfterReadme(FindPackagesResult(pkgs))
    /\ setupCalls = 1
    /\ passed = [called |-> TRUE, config |-> kwargs]
    /\ outcome = "success"
    /\ openAttempts = 1
    /\ prev = NoPrev
    /\ cand \in Candidates
    /\ verdict = "none"

CheckInterpreter ==
    /\ passed.called
    /\ cand.target = "python"
    /\ verdict = "none"
    /\ verdict' =
          IF Admits(ParseSpecifierSet(passed.config.python_requires), cand.version)
          THEN "admit" ELSE "reject"
    /\ UNCHANGED <<scriptVars, cand>>

CheckDependency ==
    /\ passed.called
    /\ cand.target = "dist"
    /\ verdict = "none"
    /\ LET reqs == passed.config.install_requires
           on == RequirementsOn(reqs, cand.project)
       IN  verdict' =
              IF on = {} THEN "not_required"
              ELSE IF \A i \in on :
                        Admits(ParseRequirement(reqs[i]).specifier, cand.version)
              THEN "admit" ELSE "reject"
    /\ UNCHANGED <<scriptVars, cand>>

NextInstall ==
    \/ CheckInterpreter
    \/ CheckDependency

SpecInstall == InitInstall /\ [][NextInstall]_vars

(***************************************************************************)
(* Properties                                                              *)
(***************************************************************************)
\* README.md cannot be opened, or cannot be decoded with the encoding the
\* open gave the file.
ReadmeUnreadable ==
    \/ readme.kind # "file"
    \/ encoding \in Encodings /\ Decode(encoding, readme.content) = DecodeError

ReadSucceeded == "long_description" \in DOMAIN kwargs

\* C1: an execution ends in success only if README.md is a readable file
\* whose content can be read; an execution in which the open or the read
\* failed ends in the read error, never in success.
C1_SuccessOnlyIfReadmeReadable ==
    /\ outcome = "success" =>
          /\ readme.kind = "file"
          /\ encoding \in Encodings
          /\ Decode(encoding, readme.content) # DecodeError
    /\ (pc = "done" /\ openAttempts >= 1 /\ ReadmeUnreadable) =>
          outcome = "read_error"

C1_Witness ==
    pc = "done" /\ outcome = "read_error" /\ readme.kind = "missing"

\* C2: setup() is entered at most once per execution, exactly once in an
\* execution whose README read succeeded, and once the execution has ended
\* (setup() returned or raised, or the read or the import failed) the script
\* takes no further step.
C2_SetupCalledOnce ==
    /\ setupCalls <= 1
    /\ (pc = "done" /\ ReadSucceeded) => setupCalls = 1
    /\ pc = "in_setup" => setupCalls = 1
    /\ pc = "done" => ~ENABLED ScriptStep

C2_Witness ==
    pc = "done" /\ setupCalls = 1 /\ outcome = "success" /\ prev.ran

\* C6: the read comes before the call and nothing handles its failure: when
\* README.md cannot be read, setup() is not entered, no configuration is
\* produced, no long_description is substituted, the open is not retried, and
\* the execution ends with the read error; and setup() is only ever entered
\* after the one read has succeeded.
C6_ReadFailurePropagates ==
    /\ ReadmeUnreadable =>
          /\ setupCalls = 0
          /\ ~passed.called
          /\ ~ReadSucceeded
          /\ pc \in {"import", "open", "read", "done"}
    /\ outcome = "read_error" => pc = "done" /\ ReadmeUnreadable
    /\ openAttempts <= 1
    /\ setupCalls >= 1 => ReadSucceeded /\ openAttempts = 1

C6_Witness ==
    /\ pc = "done"
    /\ outcome = "read_error"
    /\ readme.kind = "file"
    /\ openAttempts = 1

\* C7 as stated: whenever setup() is entered, long_description is the content
\* of README.md, unmodified (compared on ASCII content, where a byte and the
\* character it decodes to are the same in every encoding), and the content
\* type is "text/markdown".
C7_Original ==
    (passed.called /\ Range(readme.content) \subseteq Ascii) =>
        /\ passed.config.long_description = readme.content
        /\ passed.config.long_description_content_type = "text/markdown"

\* C7 as amended: whenever setup() is entered, long_description is the whole
\* content of README.md decoded with the encoding of the open, with every
\* "\r\n" and every remaining "\r" replaced by "\n", nothing else changed and
\* nothing cut off; the content type is "text/markdown".
C7_LongDescriptionIsReadmeText ==
    passed.called =>
        /\ Decode(encoding, readme.content) # DecodeError
        /\ passed.config.long_description =
              TranslateNewlines(Decode(encoding, readme.content))
        /\ passed.config.long_description_content_type = "text/markdown"

C7_Witness ==
    /\ passed.called
    /\ readme.content = <<"CR", "LF">>
    /\ passed.config.long_description = <<"LF">>

\* C8: the literal arguments are the same in every execution, and two
\* executions with the same README.md content and the same discovered
\* packages pass the same configuration to setup().
C8_Deterministic ==
    /\ passed.called =>
          /\ passed.config.name = <<"a","g","e","n","t","-","o","s">>
          /\ passed.config.version = <<"0",".","1",".","0">>
          /\ passed.config.author = "Your Name"
          /\ passed.config.description =
                "Canonical naming and discovery system for AI agents"
          /\ passed.config.url = "https://github.com/yourusername/agent-os"
          /\ passed.config.python_requires = <<">","=","3",".","8">>
          /\ passed.config.install_requires =
                << <<"p","y","y","a","m","l",">","=","6",".","0">> >>
    /\ (/\ prev.ran
        /\ passed.called
        /\ prev.content = readme.content
        /\ prev.pkgs = pkgs) => passed.config = prev.config

\* C9: no step of the script changes README.md: it exists, and holds the same
\* bytes, after every step exactly as before it.
C9_ReadmeUntouched == [][readme' = readme]_vars

C9_Witness ==
    /\ pc = "done"
    /\ outcome = "success"
    /\ openAttempts = 1
    /\ readme.content # <<>>

\* C5: the name, the version and every requirement string setup() receives
\* are accepted by the project-name, version and requirement grammars.
C5_MetadataWellFormed ==
    passed.called =>
        /\ ValidName(passed.config.name)
        /\ ValidVersion(passed.config.version)
        /\ \A i \in DOMAIN passed.config.install_requires :
              ValidRequirement(passed.config.install_requires[i])

C5_Witness ==
    /\ pc = "in_setup"
    /\ passed.called
    /\ passed.config.name = <<"a","g","e","n","t","-","o","s">>
    /\ Len(passed.config.install_requires) = 1

\* The candidate is a release of the YAML library, under either spelling.
IsPyYaml(project) ==
    project \in {<<"p","y","y","a","m","l">>, <<"P","y","Y","A","M","L">>}

\* C3: install_requires holds exactly one requirement, with one clause; a
\* candidate distribution is required iff it is pyyaml, and a pyyaml candidate
\* is admitted iff its version is at least 6.0 (its first component is at
\* least 6).
C3_OneDependencyPyYamlAtLeast6 ==
    /\ passed.called =>
          /\ Len(passed.config.install_requires) = 1
          /\ Len(ParseRequirement(passed.config.install_requires[1]).specifier) = 1
    /\ (cand.target = "dist" /\ verdict # "none") =>
          /\ verdict = "not_required" <=> ~IsPyYaml(cand.project)
          /\ verdict = "admit" <=>
                (IsPyYaml(cand.project) /\ cand.version[1] >= 6)

C3_Witness ==
    /\ verdict = "admit"
    /\ cand.target = "dist"
    /\ cand.project = <<"P","y","Y","A","M","L">>
    /\ cand.version = <<6>>

\* C4: an interpreter version is admitted by python_requires iff it is at
\* least 3.8 (above 3, or 3 with a second component of at least 8); nothing
\* above 3.8 is rejected.
C4_InterpreterAtLeast38 ==
    (cand.target = "python" /\ verdict # "none") =>
        (verdict = "admit" <=>
            \/ cand.version[1] > 3
            \/ cand.version[1] = 3 /\ Len(cand.version) >= 2
                                   /\ cand.version[2] >= 8)

C4_Witness ==
    /\ verdict = "admit"
    /\ cand.target = "python"
    /\ cand.version = <<3, 10>>

=============================================================================
